---------------------------- MODULE Spec2Model ----------------------------
(***************************************************************************)
(* Model of color/lightness.py: the luminance / Munsell value / Lightness *)
(* formulas, the two dispatch tables MUNSELL_VALUE_FUNCTIONS and           *)
(* LIGHTNESS_FUNCTIONS and the dispatch functions get_munsell_value and    *)
(* get_lightness.                                                          *)
(*                                                                         *)
(* Numbers.  A Python float is modelled as an exact real of the form       *)
(*     a * x^(p/q) + b        (a, x, b rational; p, q positive integers)   *)
(* +, -, *, / are exact rational arithmetic.  A power x^(p/q) whose value  *)
(* is rational is computed; any other power is kept as the term, so that  *)
(* (x^(1/3))^3 is x.  Order comparisons of a term with a rational are      *)
(* exact for square and cube roots and decided from a fixed-point          *)
(* enclosure for the other exponents (0.343, 0.426).                       *)
(***************************************************************************)
EXTENDS Integers, Sequences, FiniteSets, TLC

(***************************************************************************)
(* Bounds of the model.                                                    *)
(***************************************************************************)
\* The luminance grid is 0, GridStep, ..., MaxGrid * GridStep.
MaxGrid == 4
\* Fixed-point scale of the enclosure of an irrational power.
PowScale == 4096
\* Number of binary digits of the exponent used by the enclosure.
PowBits == 16

(***************************************************************************)
(* Rational arithmetic: a rational is [n, d] in lowest terms with d > 0.   *)
(***************************************************************************)
Abs(n) == IF n < 0 THEN -n ELSE n

RECURSIVE GCD(_, _)
GCD(a, b) == IF b = 0 THEN a ELSE GCD(b, a % b)

R(n, d) ==
    LET g == GCD(Abs(n), Abs(d))
        s == IF d < 0 THEN -1 ELSE 1
    IN  [n |-> s * (n \div g), d |-> s * (d \div g)]

Zero == R(0, 1)
One == R(1, 1)

RNeg(x) == [n |-> -x.n, d |-> x.d]
RInv(x) == R(x.d, x.n)

RMul(x, y) ==
    LET g1 == GCD(Abs(x.n), y.d)
        g2 == GCD(Abs(y.n), x.d)
    IN  R((x.n \div g1) * (y.n \div g2), (x.d \div g2) * (y.d \div g1))

RDiv(x, y) == RMul(x, RInv(y))

RAdd(x, y) ==
    LET g == GCD(x.d, y.d)
    IN  R(x.n * (y.d \div g) + y.n * (x.d \div g), (x.d \div g) * y.d)

RSub(x, y) == RAdd(x, RNeg(y))

\* a/b <= c/d for b, d > 0, by continued fractions (no cross product).
RECURSIVE CFLeq(_, _, _, _)
CFLeq(a, b, c, d) ==
    LET qa == a \div b
        qc == c \div d
        ra == a % b
        rc == c % d
    IN  IF qa # qc THEN qa < qc
        ELSE IF ra = 0 THEN TRUE
        ELSE IF rc = 0 THEN FALSE
        ELSE CFLeq(d, rc, b, ra)

RLeq(x, y) == CFLeq(x.n, x.d, y.n, y.d)
RLt(x, y) == ~RLeq(y, x)

RECURSIVE IntPow(_, _)
IntPow(r, k) == IF k = 0 THEN 1 ELSE r * IntPow(r, k - 1)

RECURSIVE RPowInt(_, _)
RPowInt(x, k) == IF k = 0 THEN One ELSE RMul(x, RPowInt(x, k - 1))

(***************************************************************************)
(* Integer roots.  IRoot(n, q) is the largest r with r^q <= n, for q = 2   *)
(* and q = 3 (n is below 2^31, so r is below 46341, resp. 1291).           *)
(***************************************************************************)
RECURSIVE Bisect(_, _, _, _)
Bisect(lo, hi, n, q) ==
    IF lo = hi THEN lo
    ELSE LET mid == (lo + hi + 1) \div 2
         IN  IF IntPow(mid, q) <= n THEN Bisect(mid, hi, n, q)
             ELSE Bisect(lo, mid - 1, n, q)

RootCap(q) == IF q = 2 THEN 46340 ELSE 1290

IRoot(n, q) ==
    LET cap == IF n < RootCap(q) THEN n ELSE RootCap(q)
    IN  Bisect(0, cap, n, q)

\* Whether the natural n is a perfect q-th power.  For q > 3 the exponents
\* of the program have q >= 500, and below 2^31 only 0 and 1 are perfect.
IsPerfect(n, q) ==
    IF q = 1 \/ n <= 1 THEN TRUE
    ELSE IF q <= 3 THEN IntPow(IRoot(n, q), q) = n
    ELSE FALSE

ExactRoot(n, q) == IF q = 1 \/ n <= 1 THEN n ELSE IRoot(n, q)


(***************************************************************************)
(* Floats.  Num(r) is the rational r; Term(a, x, p, q, b) is               *)
(* a * x^(p/q) + b with x^(p/q) irrational.                                *)
(***************************************************************************)
Num(r) == [a |-> Zero, x |-> Zero, p |-> 1, q |-> 1, b |-> r]

Term(a, x, p, q, b) ==
    IF a = Zero THEN Num(b) ELSE [a |-> a, x |-> x, p |-> p, q |-> q, b |-> b]

IsNum(v) == v.a = Zero

Scale(v, r) == Term(RMul(v.a, r), v.x, v.p, v.q, RMul(v.b, r))

\* Python's binary + - * / on floats; one operand at least is rational.
Add(v, w) ==
    IF IsNum(w) THEN Term(v.a, v.x, v.p, v.q, RAdd(v.b, w.b))
    ELSE IF IsNum(v) THEN Term(w.a, w.x, w.p, w.q, RAdd(w.b, v.b))
    ELSE CHOOSE u \in {} : TRUE

Sub(v, w) == Add(v, Scale(w, RNeg(One)))

Mul(v, w) ==
    IF IsNum(w) THEN Scale(v, w.b)
    ELSE IF IsNum(v) THEN Scale(w, v.b)
    ELSE CHOOSE u \in {} : TRUE

\* v / w for a rational w # 0 (the callers raise on w = 0 first).
Div(v, w) == Scale(v, RInv(w.b))

\* Python's v ** (p/q) and math.sqrt (p/q = 1/2), for v >= 0.
Pow(v, p, q) ==
    LET g == GCD(p, q)
        pp == p \div g
        qq == q \div g
    IN  IF IsNum(v)
        THEN IF IsPerfect(v.b.n, qq) /\ IsPerfect(v.b.d, qq)
             THEN Num(RPowInt(R(ExactRoot(v.b.n, qq), ExactRoot(v.b.d, qq)),
                              IF v.b.n <= 1 /\ v.b.d = 1 THEN 1 ELSE pp))
             ELSE Term(One, v.b, pp, qq, Zero)
        ELSE IF v.b = Zero /\ qq = 1
        THEN LET h == GCD(v.p * pp, v.q)
                 np == (v.p * pp) \div h
                 nq == v.q \div h
             IN  IF nq = 1
                 THEN Num(RMul(RPowInt(v.a, pp), RPowInt(v.x, np)))
                 ELSE Term(RPowInt(v.a, pp), v.x, np, nq, Zero)
        ELSE CHOOSE u \in {} : TRUE

(***************************************************************************)
(* Fixed-point enclosure of x^(p/q) for a rational x > 0 and 0 < p/q < 1:  *)
(* PowLo(x, p, q) / PowScale <= x^(p/q) <= PowHi(x, p, q) / PowScale.      *)
(* x^(p/q) is the product of the roots x^(1/2^k) over the binary digits k  *)
(* of p/q; Lo rounds every step down and drops the digits after PowBits,   *)
(* Hi rounds every step up and counts the dropped digits as one more root. *)
(***************************************************************************)
FxFloor(x) == (x.n * PowScale) \div x.d
FxCeil(x) == -((-(x.n * PowScale)) \div x.d)

SqrtLo(X) == IRoot(X * PowScale, 2)
SqrtHi(X) ==
    LET r == IRoot(X * PowScale, 2)
    IN  IF r * r = X * PowScale THEN r ELSE r + 1

MulLo(A, B) == (A * B) \div PowScale
MulHi(A, B) == -((-(A * B)) \div PowScale)

RECURSIVE PowLoChain(_, _, _, _, _)
PowLoChain(X, p, q, k, acc) ==
    IF k = 0 \/ p = 0 THEN acc
    ELSE LET X1 == SqrtLo(X)
         IN  IF 2 * p >= q
             THEN PowLoChain(X1, 2 * p - q, q, k - 1, MulLo(acc, X1))
             ELSE PowLoChain(X1, 2 * p, q, k - 1, acc)

RECURSIVE PowHiChain(_, _, _, _, _)
PowHiChain(X, p, q, k, acc) ==
    IF p = 0 THEN acc
    ELSE IF k = 0 THEN MulHi(acc, X)
    ELSE LET X1 == SqrtHi(X)
         IN  IF 2 * p >= q
             THEN PowHiChain(X1, 2 * p - q, q, k - 1, MulHi(acc, X1))
             ELSE PowHiChain(X1, 2 * p, q, k - 1, acc)

PowLo(x, p, q) ==
    IF RLeq(One, x)
    THEN PowLoChain(FxFloor(x), p, q, PowBits, PowScale)
    ELSE (PowScale * PowScale)
            \div PowHiChain(FxCeil(RInv(x)), p, q, PowBits, PowScale)

PowHi(x, p, q) ==
    IF RLeq(One, x)
    THEN PowHiChain(FxCeil(x), p, q, PowBits, PowScale)
    ELSE -((-(PowScale * PowScale))
            \div PowLoChain(FxFloor(RInv(x)), p, q, PowBits, PowScale))

(***************************************************************************)
(* Order.  RCmp, PowCmp and Cmp give the sign (-1, 0, 1) of x - y, of      *)
(* x^(p/q) - t and of v - c.                                               *)
(***************************************************************************)
RCmp(x, y) == IF x = y THEN 0 ELSE IF RLeq(x, y) THEN -1 ELSE 1

\* The sign of the irrational x^(p/q) - t: exact for square and cube roots
\* (x^(1/2) < t iff x/t < t; x^(1/3) < t iff (x/t)/t < t), from the
\* enclosure otherwise; undefined when the enclosure does not decide.
PowCmp(x, p, q, t) ==
    IF t.n <= 0 THEN 1
    ELSE IF p = 1 /\ q = 2 THEN RCmp(RDiv(x, t), t)
    ELSE IF p = 1 /\ q = 3 THEN RCmp(RDiv(RDiv(x, t), t), t)
    ELSE CASE RLeq(t, R(PowLo(x, p, q), PowScale)) -> 1
           [] RLeq(R(PowHi(x, p, q), PowScale), t) -> -1

Cmp(v, c) ==
    IF IsNum(v) THEN RCmp(v.b, c)
    ELSE LET s == PowCmp(v.x, v.p, v.q, RDiv(RSub(c, v.b), v.a))
         IN  IF v.a.n > 0 THEN s ELSE -s

\* Python's v <= w, v < w, v > w on floats; one operand at least is rational.
Leq(v, w) == IF IsNum(w) THEN Cmp(v, w.b) <= 0 ELSE Cmp(w, v.b) >= 0
Lt(v, w) == IF IsNum(w) THEN Cmp(v, w.b) < 0 ELSE Cmp(w, v.b) > 0
Gt(v, w) == Lt(w, v)

(***************************************************************************)
(* Python values other than floats, and the result of a call.              *)
(***************************************************************************)
None == [none |-> TRUE]
\* A float argument, resp. a method argument, the caller did not pass.
Omitted == [omitted |-> TRUE]
OmittedMethod == "<omitted>"

Default(arg, default) == IF arg = Omitted THEN default ELSE arg
DefaultMethod(arg, default) == IF arg = OmittedMethod THEN default ELSE arg

Return(v) ==
    [kind |-> "return", value |-> v, exc |-> "", msg |-> "", warnings |-> <<>>]
Raise(e, m) ==
    [kind |-> "raise", value |-> None, exc |-> e, msg |-> m, warnings |-> <<>>]

Float(n, d) == Num(R(n, d))

VARIABLES
    CIE_E,                      \* module constant, line 54
    CIE_K,                      \* module constant, line 55
    MUNSELL_VALUE_FUNCTIONS,    \* dispatch table: method name -> function
    LIGHTNESS_FUNCTIONS,        \* dispatch table: method name -> function
    LOGGER,                     \* the warnings the last call logged
    call,                       \* the last call: operation and arguments
    outcome                     \* what the last call returned or raised

vars == <<CIE_E, CIE_K, MUNSELL_VALUE_FUNCTIONS, LIGHTNESS_FUNCTIONS,
          LOGGER, call, outcome>>

(***************************************************************************)
(* The formulas.                                                           *)
(***************************************************************************)
luminance_1943(V) ==
    Return(Add(Sub(Add(Sub(Mul(Float(12219, 10000), V),
                           Mul(Float(23111, 100000), Mul(V, V))),
                       Mul(Float(23951, 100000), Pow(V, 3, 1))),
                   Mul(Float(21009, 1000000), Pow(V, 4, 1))),
               Mul(Float(8404, 10000000), Pow(V, 5, 1))))

\* Variant of the guard of luminance_1976 that sends the knee itself to the
\* cubic branch: L >= CIE_K * CIE_E.
luminance_1976_is_cubic_from_knee(L) == ~Lt(L, Mul(CIE_K, CIE_E))

\* luminance_1976, line 160: the guard L > CIE_K * CIE_E and its branches.
luminance_1976_is_cubic(L) == Gt(L, Mul(CIE_K, CIE_E))
luminance_1976_cubic(L, Yn) ==
    Mul(Pow(Div(Add(L, Float(16, 1)), Float(116, 1)), 3, 1), Yn)
luminance_1976_linear(L, Yn) == Mul(Div(L, CIE_K), Yn)

luminance_1976(L, Yn) ==
    LET yn == Default(Yn, Float(100, 1))
    IN  Return(IF luminance_1976_is_cubic(L)
               THEN luminance_1976_cubic(L, yn)
               ELSE luminance_1976_linear(L, yn))

munsell_value_1920(Y) ==
    Return(Mul(Float(10, 1), Pow(Div(Y, Float(100, 1)), 1, 2)))

munsell_value_1933(Y) ==
    Return(Pow(Sub(Mul(Float(14742, 10000), Y),
                   Mul(Float(4743, 1000000), Mul(Y, Y))), 1, 2))

munsell_value_1943(Y) ==
    Return(Mul(Float(14, 10), Pow(Y, 426, 1000)))

munsell_value_1944(Y) ==
    Return(Sub(Mul(Float(2357, 1000), Pow(Y, 343, 1000)), Float(152, 100)))

munsell_value_1955(Y) ==
    Return(Sub(Mul(Float(2468, 1000), Pow(Y, 1, 3)), Float(1636, 1000)))

lightness_1958(Y) ==
    Return(Sub(Mul(Float(2529, 100), Pow(Y, 1, 3)), Float(1838, 100)))

\* Variant of the guard of lightness_1964 whose range includes its ends:
\* not 1. <= Y <= 98.
lightness_1964_warns_outside_closed_range(Y) ==
    ~(Leq(Float(1, 1), Y) /\ Leq(Y, Float(98, 1)))

\* The guard of lightness_1964's warning: not 1. < Y < 98.
lightness_1964_warns(Y) == ~(Lt(Float(1, 1), Y) /\ Lt(Y, Float(98, 1)))

lightness_1964(Y) ==
    [Return(Sub(Mul(Float(25, 1), Pow(Y, 1, 3)), Float(17, 1)))
        EXCEPT !.warnings =
            IF lightness_1964_warns(Y)
            THEN <<"'W*' lightness calculation is only applicable for 1% < 'Y' < 98%">>
            ELSE <<>>]

\* lightness_1976, line 369: the guard ratio <= CIE_E and its branches.
lightness_1976_is_linear(ratio) == Leq(ratio, CIE_E)
lightness_1976_linear(ratio) == Mul(CIE_K, ratio)
lightness_1976_cubic(ratio) ==
    Sub(Mul(Float(116, 1), Pow(ratio, 1, 3)), Float(16, 1))

lightness_1976(Y, Yn) ==
    LET yn == Default(Yn, Float(100, 1))
    IN  IF yn = Float(0, 1)
        THEN Raise("ZeroDivisionError", "float division by zero")
        ELSE LET ratio == Div(Y, yn)
             IN  Return(IF lightness_1976_is_linear(ratio)
                        THEN lightness_1976_linear(ratio)
                        ELSE lightness_1976_cubic(ratio))

(***************************************************************************)
(* Dispatch.  A table maps a method name to a function, here the           *)
(* function's name; dict.get gives None for a missing key, and calling     *)
(* None raises TypeError.                                                  *)
(***************************************************************************)
DictGet(d, key) == IF key \in DOMAIN d THEN d[key] ELSE "None"

CallObject(f, Y) ==
    CASE f = "munsell_value_1920" -> munsell_value_1920(Y)
      [] f = "munsell_value_1933" -> munsell_value_1933(Y)
      [] f = "munsell_value_1943" -> munsell_value_1943(Y)
      [] f = "munsell_value_1944" -> munsell_value_1944(Y)
      [] f = "munsell_value_1955" -> munsell_value_1955(Y)
      [] f = "lightness_1958" -> lightness_1958(Y)
      [] f = "lightness_1964" -> lightness_1964(Y)
      [] f = "lightness_1976" -> lightness_1976(Y, Omitted)
      [] f = "None" -> Raise("TypeError", "'NoneType' object is not callable")

\* get_lightness as first defined (lines 385-412); the definition of
\* lines 440-467 replaces it when the module is loaded.
get_lightness_shadowed(Y, Yn, method) ==
    LET yn == Default(Yn, Float(100, 1))
        m == DefaultMethod(method, "Lightness 1976")
    IN  IF yn = None
        THEN CallObject(DictGet(LIGHTNESS_FUNCTIONS, m), Y)
        ELSE lightness_1976(Y, yn)

\* Variant of get_munsell_value that serves a missing method with the
\* default formula: MUNSELL_VALUE_FUNCTIONS.get(method, munsell_value_1955)(Y).
get_munsell_value_with_fallback(Y, method) ==
    LET m == DefaultMethod(method, "Munsell Value 1955")
        f == DictGet(MUNSELL_VALUE_FUNCTIONS, m)
    IN  CallObject(IF f = "None" THEN "munsell_value_1955" ELSE f, Y)

\* Variant of get_munsell_value whose default method is the oldest formula.
get_munsell_value_default_1920(Y, method) ==
    LET m == DefaultMethod(method, "Munsell Value 1920")
    IN  CallObject(DictGet(MUNSELL_VALUE_FUNCTIONS, m), Y)

get_munsell_value(Y, method) ==
    LET m == DefaultMethod(method, "Munsell Value 1955")
    IN  CallObject(DictGet(MUNSELL_VALUE_FUNCTIONS, m), Y)

\* Variant of get_lightness that honours a method the caller passes, also
\* when Yn is a number.
get_lightness_by_method(Y, Yn, method) ==
    LET yn == Default(Yn, Float(100, 1))
        m == DefaultMethod(method, "Lightness 1976")
    IN  IF yn = None \/ method # OmittedMethod
        THEN CallObject(DictGet(LIGHTNESS_FUNCTIONS, m), Y)
        ELSE lightness_1976(Y, yn)

\* Variant of get_lightness that never reads the table.
get_lightness_only_1976(Y, Yn, method) ==
    LET yn == Default(Yn, Float(100, 1))
    IN  lightness_1976(Y, IF yn = None THEN Omitted ELSE yn)

get_lightness(Y, Yn, method) ==
    LET yn == Default(Yn, Float(100, 1))
        m == DefaultMethod(method, "Lightness 1976")
    IN  IF yn = None
        THEN CallObject(DictGet(LIGHTNESS_FUNCTIONS, m), Y)
        ELSE lightness_1976(Y, yn)

(***************************************************************************)
(* The arguments the calls are made with.                                  *)
(***************************************************************************)
\* Luminances Y >= 0: a grid over [0, 100], the documented example 10.08,
\* the ends 1 and 98 of lightness_1964's range and a value below 1.
Luminances ==
    {Float(25 * k, 1) : k \in 0..MaxGrid}
        \cup {Float(1, 4), Float(1, 1), Float(98, 1), Float(1008, 100)}

\* The lightness functions are also called at the knee 100 * 216/24389 of
\* the CIE 1976 formulas for Yn = 100.
LightnessLuminances == Luminances \cup {Float(21600, 24389)}

\* Reference whites Yn passed as numbers.
Whites == {Float(0, 1), Float(50, 1), Float(100, 1)}

MunsellMethods ==
    {"Munsell Value 1920", "Munsell Value 1933", "Munsell Value 1943",
     "Munsell Value 1944", "Munsell Value 1955"}
LightnessMethods == {"Lightness 1958", "Lightness 1964", "Lightness 1976"}
\* Method names passed to get_munsell_value, resp. get_lightness: the keys
\* of its table, a key of the other table, and a name in neither table.
MunsellMethodArgs ==
    MunsellMethods \cup {"Lightness 1976", "Munsell Value 1999", OmittedMethod}
LightnessMethodArgs ==
    LightnessMethods
        \cup {"Munsell Value 1955", "Munsell Value 1999", OmittedMethod}

\* Munsell values V and lightnesses L passed to the inverse formulas.
MunsellValues == {Float(0, 1), Float(5, 1), Float(10, 1)}
Lightnesses == {Float(0, 1), Float(8, 1), Float(50, 1), Float(100, 1)}

Call(op, Y, Yn, method, from) ==
    [op |-> op, Y |-> Y, Yn |-> Yn, method |-> method, from |-> from]

\* Variant of the module's constants with the rounded decimal knee
\* CIE_E = 0.008856, CIE_K = 903.3.
InitDecimalKnee ==
    /\ CIE_E = Float(8856, 1000000)
    /\ CIE_K = Float(9033, 10)
    /\ MUNSELL_VALUE_FUNCTIONS =
         [m \in MunsellMethods |->
            CASE m = "Munsell Value 1920" -> "munsell_value_1920"
              [] m = "Munsell Value 1933" -> "munsell_value_1933"
              [] m = "Munsell Value 1943" -> "munsell_value_1943"
              [] m = "Munsell Value 1944" -> "munsell_value_1944"
              [] m = "Munsell Value 1955" -> "munsell_value_1955"]
    /\ LIGHTNESS_FUNCTIONS =
         [m \in LightnessMethods |->
            CASE m = "Lightness 1958" -> "lightness_1958"
              [] m = "Lightness 1964" -> "lightness_1964"
              [] m = "Lightness 1976" -> "lightness_1976"]
    /\ LOGGER = <<>>
    /\ call = Call("import", None, None, OmittedMethod, None)
    /\ outcome = Return(None)

(***************************************************************************)
(* The state after the module is loaded (lines 52-55 and 374-382).         *)
(***************************************************************************)
Init ==
    /\ CIE_E = Div(Float(216, 1), Float(24389, 1))
    /\ CIE_K = Div(Float(24389, 1), Float(27, 1))
    /\ MUNSELL_VALUE_FUNCTIONS =
         [m \in MunsellMethods |->
            CASE m = "Munsell Value 1920" -> "munsell_value_1920"
              [] m = "Munsell Value 1933" -> "munsell_value_1933"
              [] m = "Munsell Value 1943" -> "munsell_value_1943"
              [] m = "Munsell Value 1944" -> "munsell_value_1944"
              [] m = "Munsell Value 1955" -> "munsell_value_1955"]
    /\ LIGHTNESS_FUNCTIONS =
         [m \in LightnessMethods |->
            CASE m = "Lightness 1958" -> "lightness_1958"
              [] m = "Lightness 1964" -> "lightness_1964"
              [] m = "Lightness 1976" -> "lightness_1976"]
    /\ LOGGER = <<>>
    /\ call = Call("import", None, None, OmittedMethod, None)
    /\ outcome = Return(None)

\* What a call leaves behind: its result, and its warnings in the log.
Finish(c, r) ==
    /\ call' = c
    /\ outcome' = [r EXCEPT !.warnings = <<>>]
    /\ LOGGER' = r.warnings

Globals == <<CIE_E, CIE_K, MUNSELL_VALUE_FUNCTIONS, LIGHTNESS_FUNCTIONS>>

(***************************************************************************)
(* One action per function of the module.                                  *)
(***************************************************************************)
Luminance1943 ==
    \E V \in MunsellValues :
        /\ Finish(Call("luminance_1943", V, None, OmittedMethod, None),
                  luminance_1943(V))
        /\ UNCHANGED Globals

\* luminance_1976 applied to a lightness, or to what lightness_1976 has
\* just returned (from records that call's Y and Yn).
Luminance1976 ==
    \E Yn \in Whites \cup {Omitted} :
        \/ \E L \in Lightnesses :
             /\ Finish(Call("luminance_1976", L, Yn, OmittedMethod, None),
                       luminance_1976(L, Yn))
             /\ UNCHANGED Globals
        \/ /\ call.op = "lightness_1976"
           /\ outcome.kind = "return"
           /\ Finish(Call("luminance_1976", outcome.value, Yn, OmittedMethod,
                          [Y |-> call.Y, Yn |-> call.Yn]),
                     luminance_1976(outcome.value, Yn))
           /\ UNCHANGED Globals

MunsellValue1920 ==
    \E Y \in Luminances :
        /\ Finish(Call("munsell_value_1920", Y, None, OmittedMethod, None),
                  munsell_value_1920(Y))
        /\ UNCHANGED Globals

MunsellValue1933 ==
    \E Y \in Luminances :
        /\ Finish(Call("munsell_value_1933", Y, None, OmittedMethod, None),
                  munsell_value_1933(Y))
        /\ UNCHANGED Globals

MunsellValue1943 ==
    \E Y \in Luminances :
        /\ Finish(Call("munsell_value_1943", Y, None, OmittedMethod, None),
                  munsell_value_1943(Y))
        /\ UNCHANGED Globals

MunsellValue1944 ==
    \E Y \in Luminances :
        /\ Finish(Call("munsell_value_1944", Y, None, OmittedMethod, None),
                  munsell_value_1944(Y))
        /\ UNCHANGED Globals

MunsellValue1955 ==
    \E Y \in Luminances :
        /\ Finish(Call("munsell_value_1955", Y, None, OmittedMethod, None),
                  munsell_value_1955(Y))
        /\ UNCHANGED Globals

Lightness1958 ==
    \E Y \in LightnessLuminances :
        /\ Finish(Call("lightness_1958", Y, None, OmittedMethod, None),
                  lightness_1958(Y))
        /\ UNCHANGED Globals

Lightness1964 ==
    \E Y \in LightnessLuminances :
        /\ Finish(Call("lightness_1964", Y, None, OmittedMethod, None),
                  lightness_1964(Y))
        /\ UNCHANGED Globals

Lightness1976 ==
    \E Y \in LightnessLuminances, Yn \in Whites \cup {Omitted} :
        /\ Finish(Call("lightness_1976", Y, Yn, OmittedMethod, None),
                  lightness_1976(Y, Yn))
        /\ UNCHANGED Globals

\* Variant of the call of get_munsell_value that registers a method it
\* does not find, as MUNSELL_VALUE_FUNCTIONS.setdefault(method, ...) would.
GetMunsellValueRegistering ==
    \E Y \in Luminances, method \in MunsellMethodArgs :
        LET m == DefaultMethod(method, "Munsell Value 1955")
        IN  /\ MUNSELL_VALUE_FUNCTIONS' =
                 [k \in DOMAIN MUNSELL_VALUE_FUNCTIONS \cup {m} |->
                    IF k \in DOMAIN MUNSELL_VALUE_FUNCTIONS
                    THEN MUNSELL_VALUE_FUNCTIONS[k]
                    ELSE "munsell_value_1955"]
            /\ Finish(Call("get_munsell_value", Y, None, method, None),
                      get_munsell_value_with_fallback(Y, method))
            /\ UNCHANGED <<CIE_E, CIE_K, LIGHTNESS_FUNCTIONS>>

GetMunsellValue ==
    \E Y \in Luminances, method \in MunsellMethodArgs :
        /\ Finish(Call("get_munsell_value", Y, None, method, None),
                  get_munsell_value(Y, method))
        /\ UNCHANGED Globals

GetLightness ==
    \E Y \in LightnessLuminances, Yn \in Whites \cup {None, Omitted},
       method \in LightnessMethodArgs :
        /\ Finish(Call("get_lightness", Y, Yn, method, None),
                  get_lightness(Y, Yn, method))
        /\ UNCHANGED Globals

Next ==
    \/ Luminance1943
    \/ Luminance1976
    \/ MunsellValue1920
    \/ MunsellValue1933
    \/ MunsellValue1943
    \/ MunsellValue1944
    \/ MunsellValue1955
    \/ Lightness1958
    \/ Lightness1964
    \/ Lightness1976
    \/ GetMunsellValue
    \/ GetLightness

Spec == Init /\ [][Next]_vars

(***************************************************************************)
(* Properties.                                                             *)
(***************************************************************************)
\* What the last call returned or raised, with the warnings it logged.
Result == [outcome EXCEPT !.warnings = LOGGER]

CalledMethod(default) == DefaultMethod(call.method, default)
CalledWhite == Default(call.Yn, Float(100, 1))

\* The exceptions that report a failed lookup.
LookupErrors == {"MethodNotFoundError", "LookupError", "KeyError", "IndexError"}

\* C1: get_munsell_value with a method that is not a key of
\* MUNSELL_VALUE_FUNCTIONS fails with a lookup error that identifies the
\* missing method, and returns no value.
C1_UnknownMunsellMethodIsLookupError ==
    (/\ call.op = "get_munsell_value"
     /\ CalledMethod("Munsell Value 1955") \notin MunsellMethods)
        => /\ outcome.kind = "raise"
           /\ outcome.exc \in LookupErrors
           /\ outcome.msg = call.method

\* C2: with a reference white Yn that is not None, both definitions of
\* get_lightness give lightness_1976(Y, Yn), whatever the method.
C2_WhiteOverridesMethod ==
    (call.op = "get_lightness" /\ CalledWhite # None)
        => /\ Result = lightness_1976(call.Y, CalledWhite)
           /\ get_lightness_shadowed(call.Y, call.Yn, call.method)
                = lightness_1976(call.Y, CalledWhite)

\* A call with a white and the method "Lightness 1964" returned a value that
\* is not the one lightness_1964 gives.
C2_Witness ==
    /\ call.op = "get_lightness"
    /\ call.Yn = Float(50, 1)
    /\ call.method = "Lightness 1964"
    /\ outcome.kind = "return"
    /\ outcome.value # lightness_1964(call.Y).value
    /\ outcome.value = lightness_1976(call.Y, call.Yn).value

\* C3: with Yn = None, get_lightness applies the formula registered under
\* the method: lightness_1958, lightness_1964 or, also when the method is
\* omitted, lightness_1976 with the reference white 100.
C3_NoneWhiteDispatches ==
    (/\ call.op = "get_lightness"
     /\ call.Yn = None
     /\ CalledMethod("Lightness 1976") \in LightnessMethods)
        => Result =
             CASE CalledMethod("Lightness 1976") = "Lightness 1958"
                    -> lightness_1958(call.Y)
               [] CalledMethod("Lightness 1976") = "Lightness 1964"
                    -> lightness_1964(call.Y)
               [] CalledMethod("Lightness 1976") = "Lightness 1976"
                    -> lightness_1976(call.Y, Float(100, 1))

\* get_lightness(10.08, None, "Lightness 1964") returned 25 * 10.08^(1/3) - 17.
C3_Witness ==
    /\ call.op = "get_lightness"
    /\ call.Y = Float(1008, 100)
    /\ call.Yn = None
    /\ call.method = "Lightness 1964"
    /\ outcome.kind = "return"
    /\ outcome.value = Term(R(25, 1), R(1008, 100), 1, 3, R(-17, 1))

\* C4: get_lightness with a method that is not a key of LIGHTNESS_FUNCTIONS
\* raises, whether Yn is None or a number; it returns no value.
C4_UnknownLightnessMethodRaises ==
    (/\ call.op = "get_lightness"
     /\ CalledMethod("Lightness 1976") \notin LightnessMethods)
        => outcome.kind = "raise"

\* C5: get_munsell_value with a registered method applies the formula of
\* that year, and applies munsell_value_1955 when the method is omitted.
C5_MunsellDispatch ==
    (/\ call.op = "get_munsell_value"
     /\ CalledMethod("Munsell Value 1955") \in MunsellMethods)
        => /\ Result =
                CASE call.method = "Munsell Value 1920"
                       -> munsell_value_1920(call.Y)
                  [] call.method = "Munsell Value 1933"
                       -> munsell_value_1933(call.Y)
                  [] call.method = "Munsell Value 1943"
                       -> munsell_value_1943(call.Y)
                  [] call.method = "Munsell Value 1944"
                       -> munsell_value_1944(call.Y)
                  [] call.method \in {"Munsell Value 1955", OmittedMethod}
                       -> munsell_value_1955(call.Y)

\* get_munsell_value(10.08) returned 2.468 * 10.08^(1/3) - 1.636.
C5_Witness ==
    /\ call.op = "get_munsell_value"
    /\ call.Y = Float(1008, 100)
    /\ call.method = OmittedMethod
    /\ outcome.kind = "return"
    /\ outcome.value = Term(R(2468, 1000), R(1008, 100), 1, 3, R(-1636, 1000))

\* The last call ran lightness_1964, directly or through get_lightness.
Ran1964 ==
    \/ call.op = "lightness_1964"
    \/ /\ call.op = "get_lightness"
       /\ call.Yn = None
       /\ call.method = "Lightness 1964"

\* C6: lightness_1964 logs one warning exactly when Y is not strictly
\* between 1 and 98, and in both cases returns 25 * Y^(1/3) - 17.
C6_WarningIsAdvisory ==
    Ran1964
        => /\ (LOGGER # <<>>)
                <=> ~(RLt(R(1, 1), call.Y.b) /\ RLt(call.Y.b, R(98, 1)))
           /\ Len(LOGGER) <= 1
           /\ outcome.kind = "return"
           /\ outcome.value
                = Sub(Mul(Float(25, 1), Pow(call.Y, 1, 3)), Float(17, 1))

\* lightness_1964(98) logged a warning and returned 25 * 98^(1/3) - 17.
C6_Witness ==
    /\ call.op = "lightness_1964"
    /\ call.Y = Float(98, 1)
    /\ LOGGER # <<>>
    /\ outcome.kind = "return"
    /\ outcome.value = Term(R(25, 1), R(98, 1), 1, 3, R(-17, 1))

\* The last call applied luminance_1976 to lightness_1976(Y, Yn), with the
\* same Yn > 0 and 0 <= Y <= Yn.
RoundTrip1976 ==
    /\ call.op = "luminance_1976"
    /\ call.from # None
    /\ Default(call.from.Yn, Float(100, 1)) = CalledWhite
    /\ Lt(Float(0, 1), CalledWhite)
    /\ Leq(Float(0, 1), call.from.Y)
    /\ Leq(call.from.Y, CalledWhite)

\* C7: on lightness_1976(Y, Yn), luminance_1976 takes its linear branch
\* exactly when lightness_1976 took its linear branch, and returns Y.
C7_Luminance1976InvertsLightness1976 ==
    RoundTrip1976
        => /\ lightness_1976_is_linear(Div(call.from.Y, CalledWhite))
                <=> ~luminance_1976_is_cubic(call.Y)
           /\ outcome.kind = "return"
           /\ outcome.value = call.from.Y

\* The round trip of 10.08 through the cubic branches.
C7_Witness ==
    /\ RoundTrip1976
    /\ call.from.Y = Float(1008, 100)
    /\ ~IsNum(call.Y)
    /\ luminance_1976_is_cubic(call.Y)
    /\ outcome.value = Float(1008, 100)

\* C8: at ratio = CIE_E the two branches of lightness_1976 both give
\* CIE_K * CIE_E, which is what a call at that ratio returns, and at
\* L = CIE_K * CIE_E the two branches of luminance_1976 give the same Y.
C8_ContinuousAtKnee ==
    /\ lightness_1976_linear(CIE_E) = Mul(CIE_K, CIE_E)
    /\ lightness_1976_cubic(CIE_E) = Mul(CIE_K, CIE_E)
    /\ \A Yn \in Whites :
         luminance_1976_cubic(Mul(CIE_K, CIE_E), Yn)
            = luminance_1976_linear(Mul(CIE_K, CIE_E), Yn)
    /\ (/\ call.op = "lightness_1976"
        /\ outcome.kind = "return"
        /\ Div(call.Y, CalledWhite) = CIE_E)
          => outcome.value = lightness_1976_cubic(CIE_E)

\* lightness_1976 was called at the knee and returned CIE_K * CIE_E = 8.
C8_Witness ==
    /\ call.op = "lightness_1976"
    /\ call.Y = Float(21600, 24389)
    /\ call.Yn = Float(100, 1)
    /\ Div(call.Y, call.Yn) = CIE_E
    /\ outcome.value = Mul(CIE_K, CIE_E)
    /\ outcome.value = Float(8, 1)

MunsellFormulas ==
    {"munsell_value_1920", "munsell_value_1933", "munsell_value_1943",
     "munsell_value_1944", "munsell_value_1955"}

\* C9: each Munsell value formula maps a luminance Y in [0, 100] to a value
\* V in [0, 10].
C9_MunsellValueInRange ==
    (/\ call.op \in MunsellFormulas
     /\ Leq(Float(0, 1), call.Y)
     /\ Leq(call.Y, Float(100, 1)))
        => /\ outcome.kind = "return"
           /\ Leq(Float(0, 1), outcome.value)
           /\ Leq(outcome.value, Float(10, 1))

\* What the last call gives when it is made again in the current state.
Recomputed ==
    CASE call.op = "import" -> Return(None)
      [] call.op = "luminance_1943" -> luminance_1943(call.Y)
      [] call.op = "luminance_1976" -> luminance_1976(call.Y, call.Yn)
      [] call.op \in MunsellFormulas \cup {"lightness_1958", "lightness_1964"}
           -> CallObject(call.op, call.Y)
      [] call.op = "lightness_1976" -> lightness_1976(call.Y, call.Yn)
      [] call.op = "get_munsell_value"
           -> get_munsell_value(call.Y, call.method)
      [] call.op = "get_lightness"
           -> get_lightness(call.Y, call.Yn, call.method)

\* C10: after any calls, failed or not, the constants are 216/24389 and
\* 24389/27 and the tables hold their five and three keys with the same
\* formulas, and the last call made again gives the same result.
C10_TablesAndConstantsUnchanged ==
    /\ CIE_E = Float(216, 24389)
    /\ CIE_K = Float(24389, 27)
    /\ DOMAIN MUNSELL_VALUE_FUNCTIONS = MunsellMethods
    /\ MUNSELL_VALUE_FUNCTIONS["Munsell Value 1920"] = "munsell_value_1920"
    /\ MUNSELL_VALUE_FUNCTIONS["Munsell Value 1933"] = "munsell_value_1933"
    /\ MUNSELL_VALUE_FUNCTIONS["Munsell Value 1943"] = "munsell_value_1943"
    /\ MUNSELL_VALUE_FUNCTIONS["Munsell Value 1944"] = "munsell_value_1944"
    /\ MUNSELL_VALUE_FUNCTIONS["Munsell Value 1955"] = "munsell_value_1955"
    /\ DOMAIN LIGHTNESS_FUNCTIONS = LightnessMethods
    /\ LIGHTNESS_FUNCTIONS["Lightness 1958"] = "lightness_1958"
    /\ LIGHTNESS_FUNCTIONS["Lightness 1964"] = "lightness_1964"
    /\ LIGHTNESS_FUNCTIONS["Lightness 1976"] = "lightness_1976"
    /\ Result = Recomputed

\* A call of get_munsell_value with an unregistered method has failed, and
\* the table still has its five keys.
C10_Witness ==
    /\ call.op = "get_munsell_value"
    /\ call.method = "Munsell Value 1999"
    /\ outcome.kind = "raise"
    /\ DOMAIN MUNSELL_VALUE_FUNCTIONS = MunsellMethods

=============================================================================
